---- MODULE Spec2Model ----
(***************************************************************************)
(* Legal_Document_Analysis: the session server (src/mcp_tools.py) and the  *)
(* chat client with its intent router (src/chatbot.py).                    *)
(*                                                                         *)
(* The server's endpoints are plain `def` handlers, which FastAPI runs on  *)
(* worker threads: a handler is a sequence of steps, each atomic, and the  *)
(* steps of different requests interleave.  A step is cut wherever the     *)
(* handler reads or writes the shared SESSIONS dictionary or a shared      *)
(* history list, and at the blocking call to the model backend.            *)
(***************************************************************************)
EXTENDS Integers, Sequences, FiniteSets, TLC

\* ------------------------------------------------------------------ bounds
\* The entries all history lists hold together (see HasRoom).
MaxHist == 5
\* The fragments a question is put together from (see Questions).
MaxFrags == 3

\* Two worker threads: the least that lets two requests overlap.
Threads == {1, 2}
SessionIdSeq == <<"A", "B">>
SessionIds == {SessionIdSeq[i] : i \in DOMAIN SessionIdSeq}
Documents == {"d1", "d2"}
\* The init_session requests the clients send: session A with either document,
\* session B always with the first.
InitRequests == {<<"A", "d1">>, <<"A", "d2">>, <<"B", "d1">>}
Replies == {"r1"}

\* The five tool labels (the enum of chatbot.py:115, the endpoints of mcp_tools.py).
Tools == {"qa", "simplify", "analyze_complications", "validate_document", "extract_key_dates"}
\* The four tools whose model call goes through ask_claude.
AskClaudeTools == {"qa", "simplify", "validate_document", "extract_key_dates"}
\* The three tools whose endpoint checks the store itself before anything else.
EndpointCheckTools == {"analyze_complications", "validate_document", "extract_key_dates"}

\* A history list lives on the heap: SESSIONS holds a reference to it, and so
\* does the local `messages` of every ask_claude call that fetched it.
\* A reference is a name, not an address: the list a session holds is named by
\* the session's place in SessionIdSeq, a list only calls in flight still hold
\* is named by the first of them, and a list being created is FreshRef.
Refs == 1..(Len(SessionIdSeq) + Cardinality(Threads) + 1)
NoRef == 0
FreshRef == Len(SessionIdSeq) + Cardinality(Threads) + 1
NoDoc == "-"
NoText == "-"
NoQuestion == <<>>

VARIABLES
    SESSIONS,   \* mcp_tools.SESSIONS: session id -> [document, messages (a reference)]
    heap,       \* reference -> the list's entries, for every list still referenced
    pc,         \* per worker thread: where its handler stands
    req,        \* per worker thread: the request being handled
    document,   \* per worker thread: the local `document` of the endpoint
    messages,   \* per worker thread: the local `messages` of ask_claude (a reference)
    sent,       \* per worker thread: the `messages` argument of the model call in flight
    resp,       \* per worker thread: the HTTP response of the finished handler
    cpc,        \* chatbot.py: where the client stands
    user_query, \* chatbot.py: the query passed to chat_with_bot / classify_intent
    response,   \* chatbot.py: what the tool-choice model call gave chat_with_bot
    tool_use,   \* chatbot.py: the local tool_use of chat_with_bot
    result      \* chatbot.py: what chat_with_bot returned

srv == <<SESSIONS, heap, pc, req, document, messages, sent, resp>>
cli == <<cpc, user_query, response, tool_use, result>>
vars == <<SESSIONS, heap, pc, req, document, messages, sent, resp, cpc, user_query, response, tool_use, result>>

\* ---------------------------------------------------------------- messages
\* A history entry {"role": ..., "content": ...}; the content keeps what the
\* f-string is built from.
Entry(role, kind, doc, question, text) ==
    [role |-> role, kind |-> kind, doc |-> doc, question |-> question, text |-> text]

\* mcp_tools.py:92 -- the first entry of every history.
InitialMessage(doc) == Entry("user", "remember", doc, NoQuestion, NoText)

\* The prompt each endpoint hands to ask_claude (lines 107, 120, 196-209, 228-253).
\* Only validate_document's prompt embeds the document it read.
ToolPrompt(r, doc) ==
    CASE r.endpoint = "qa" -> Entry("user", "qa", NoDoc, r.question, NoText)
      [] r.endpoint = "simplify" -> Entry("user", "simplify", NoDoc, NoQuestion, NoText)
      [] r.endpoint = "validate_document" -> Entry("user", "validate_document", doc, NoQuestion, NoText)
      [] r.endpoint = "extract_key_dates" -> Entry("user", "extract_key_dates", NoDoc, NoQuestion, NoText)

\* mcp_tools.py:73 -- the reply entry.
AssistantMessage(text) == Entry("assistant", "reply", NoDoc, NoQuestion, text)

\* ---------------------------------------------------------------- responses
\* The response field each endpoint returns (lines 109, 122, 179, 211, 255).
ResponseField(endpoint) ==
    CASE endpoint = "qa" -> "answer"
      [] endpoint = "simplify" -> "simplified_document"
      [] endpoint = "analyze_complications" -> "analysis"
      [] endpoint = "validate_document" -> "validation"
      [] endpoint = "extract_key_dates" -> "key_dates"
      [] OTHER -> "message"

\* Error texts.  str(ValueError(msg)) is msg; str(KeyError(k)) is repr(k); an
\* HTTPException prints as "<status>: <detail>", so a detail that went through
\* two handlers is wrapped once.
NotInitialized(id) == [kind |-> "not_initialized", id |-> id, wrapped |-> FALSE]
KeyErrorText(id) == [kind |-> "key_error", id |-> id, wrapped |-> FALSE]
BackendErrorText == [kind |-> "backend_error", id |-> "-", wrapped |-> FALSE]
NoDetail == [kind |-> "-", id |-> "-", wrapped |-> FALSE]

\* str(e) of the HTTPException ask_claude raised (line 78), taken by the
\* endpoint's own handler (lines 112, 125, 214, 258).
StrHTTPException(detail) == [detail EXCEPT !.wrapped = TRUE]

Ok(field, text) == [status |-> 200, field |-> field, text |-> text, detail |-> NoDetail]
Http500(detail) == [status |-> 500, field |-> "detail", text |-> NoText, detail |-> detail]
NoResp == [status |-> 0, field |-> "-", text |-> NoText, detail |-> NoDetail]

NoReq == [endpoint |-> "-", session_id |-> "-", document |-> NoDoc, question |-> NoQuestion]
Request(endpoint, id, doc, question) ==
    [endpoint |-> endpoint, session_id |-> id, document |-> doc, question |-> question]

\* -------------------------------------------------------------------- heap
\* The references still held by the store or by a call's local `messages`.
Live(S, m) == {S[id].messages : id \in DOMAIN S} \cup {m[t] : t \in {u \in Threads : m[u] # NoRef}}

\* The name of the list r, given who holds it.
Name(S, m, r) ==
    IF \E id \in DOMAIN S : S[id].messages = r
    THEN CHOOSE i \in DOMAIN SessionIdSeq : SessionIdSeq[i] \in DOMAIN S /\ S[SessionIdSeq[i]].messages = r
    ELSE Len(SessionIdSeq) + (CHOOSE t \in Threads : m[t] = r /\ \A u \in Threads : m[u] = r => t <= u)

\* The store, the heap and the locals after a step: a list no one references
\* is gone, and every other list goes by its name.
NamedSessions(S, m) == [id \in DOMAIN S |-> [S[id] EXCEPT !.messages = Name(S, m, @)]]
NamedHeap(h, S, m) ==
    [n \in {Name(S, m, r) : r \in Live(S, m)} |-> h[CHOOSE r \in Live(S, m) : Name(S, m, r) = n]]
NamedMessages(S, m) == [t \in Threads |-> IF m[t] = NoRef THEN NoRef ELSE Name(S, m, m[t])]

\* The history a session id maps to.
History(id) == heap[SESSIONS[id].messages]

\* ------------------------------------------------------- the store's updates
\* Mutant: the membership test inverted.
InStoreInverted(S, id) == id \notin DOMAIN S

\* `session_id in SESSIONS` (lines 59, 134, 191, 223, 266).
InStore(S, id) == id \in DOMAIN S

\* Mutant: SESSIONS.setdefault(id, ...) -- an existing session is kept.
StoreSessionIfAbsent(S, id, doc, r) ==
    [i \in DOMAIN S \cup {id} |-> IF i \in DOMAIN S THEN S[i] ELSE [document |-> doc, messages |-> r]]

\* Mutant: SESSIONS = {id: ...} -- the store is rebound to the new session alone.
StoreSessionAlone(S, id, doc, r) == [i \in {id} |-> [document |-> doc, messages |-> r]]

\* mcp_tools.py:89-94 -- SESSIONS[id] = {"document": ..., "messages": [...]}.
StoreSession(S, id, doc, r) ==
    [i \in DOMAIN S \cup {id} |-> IF i = id THEN [document |-> doc, messages |-> r] ELSE S[i]]

\* Mutant: the delete is left out.
DelSessionKept(S, id) == S

\* mcp_tools.py:267 -- del SESSIONS[id].
DelSession(S, id) == [i \in DOMAIN S \ {id} |-> S[i]]

\* Mutant: one list shared by all sessions -- the prompt shows in every history.
AppendPromptToAll(h, r, prompt) == [q \in DOMAIN h |-> Append(h[q], prompt)]

\* Mutant: the list is emptied before the prompt goes in.
AppendPromptReplacing(h, r, prompt) == [h EXCEPT ![r] = <<prompt>>]

\* mcp_tools.py:63 -- messages.append({"role": "user", "content": prompt}).
AppendPrompt(h, r, prompt) == [h EXCEPT ![r] = Append(@, prompt)]

\* Mutant: the reply is put in front of the list.
AppendReplyInFront(h, r, text) == [h EXCEPT ![r] = <<AssistantMessage(text)>> \o @]

\* mcp_tools.py:73 -- messages.append({"role": "assistant", "content": text}).
AppendReply(h, r, text) == [h EXCEPT ![r] = Append(@, AssistantMessage(text))]

\* The heap with a fresh one-entry list at r (the list literal of lines 91-93).
Allocate(h, r, doc) == [q \in DOMAIN h \cup {r} |-> IF q = r THEN <<InitialMessage(doc)>> ELSE h[q]]

\* A finished handler's response leaves before anything else happens.
NoneDone == \A u \in Threads : pc[u] # "done"

\* What a handler's locals are once it has returned.
Finish(t, r) ==
    /\ pc' = [pc EXCEPT ![t] = "done"]
    /\ resp' = [resp EXCEPT ![t] = r]
    /\ document' = [document EXCEPT ![t] = NoDoc]
    /\ sent' = [sent EXCEPT ![t] = <<>>]

\* The entries the heap holds, over all its lists.
RECURSIVE TotalEntries(_, _)
TotalEntries(h, rs) ==
    IF rs = {} THEN 0
    ELSE LET r == CHOOSE q \in rs : TRUE IN Len(h[r]) + TotalEntries(h, rs \ {r})

\* The entries the calls in flight will still append: the prompt and the reply
\* before line 63, the reply alone after it.
RECURSIVE Pending(_)
Pending(ts) ==
    IF ts = {} THEN 0
    ELSE LET u == CHOOSE v \in ts : TRUE
             n == IF req[u].endpoint \notin AskClaudeTools THEN 0
                  ELSE IF pc[u] \in {"ep_doc", "ac_check", "ac_append"} THEN 2
                  ELSE IF pc[u] \in {"ac_send", "ac_wait"} THEN 1
                  ELSE 0
         IN n + Pending(ts \ {u})

\* The entries a new init_session(id) releases: the list it replaces, when no
\* call in flight holds it.
Released(id) ==
    IF id \in DOMAIN SESSIONS /\ \A u \in Threads : messages[u] # SESSIONS[id].messages
    THEN Len(heap[SESSIONS[id].messages])
    ELSE 0

\* The model keeps the heap within MaxHist entries: a request is taken up
\* only while what it may append, and what the calls in flight may, still fits.
HasRoom(n) == TotalEntries(heap, DOMAIN heap) + Pending(Threads) + n <= MaxHist

\* ------------------------------------------------------------ init_session
\* mcp_tools.py:82-99.  One dictionary store; nothing in it can raise.
InitSession(t, id, doc) ==
    /\ pc[t] = "idle"
    /\ HasRoom(1 - Released(id))
    /\ LET S1 == StoreSession(SESSIONS, id, doc, FreshRef)
       IN /\ SESSIONS' = NamedSessions(S1, messages)
          /\ heap' = NamedHeap(Allocate(heap, FreshRef, doc), S1, messages)
          /\ messages' = NamedMessages(S1, messages)
    /\ req' = [req EXCEPT ![t] = Request("init_session", id, doc, NoQuestion)]
    /\ Finish(t, Ok("message", "initialized"))

\* ----------------------------------------------------------- reset_session
\* mcp_tools.py:266 -- the membership test; line 270 when it fails.
ResetCheck(t, id) ==
    /\ pc[t] = "idle"
    /\ req' = [req EXCEPT ![t] = Request("reset_session", id, NoDoc, NoQuestion)]
    /\ IF InStore(SESSIONS, id)
       THEN /\ pc' = [pc EXCEPT ![t] = "rs_del"]
            /\ UNCHANGED <<resp, document, sent>>
       ELSE Finish(t, Ok("message", "not found"))
    /\ UNCHANGED <<SESSIONS, heap, messages>>

\* mcp_tools.py:267-269 -- the delete; lines 271-273 when the key is gone.
ResetDel(t) ==
    /\ pc[t] = "rs_del"
    /\ NoneDone
    /\ IF req[t].session_id \in DOMAIN SESSIONS
       THEN LET S1 == DelSession(SESSIONS, req[t].session_id)
            IN /\ SESSIONS' = NamedSessions(S1, messages)
               /\ heap' = NamedHeap(heap, S1, messages)
               /\ messages' = NamedMessages(S1, messages)
               /\ Finish(t, Ok("message", "cleared"))
       ELSE /\ Finish(t, Http500(KeyErrorText(req[t].session_id)))
            /\ UNCHANGED <<SESSIONS, heap, messages>>
    /\ UNCHANGED <<req, cli>>

\* ------------------------------------------------------------- the endpoints
\* mcp_tools.py:134-135, 191-192, 223-224 -- the endpoint's own membership test.
EndpointCheck(t, tool, id) ==
    /\ pc[t] = "idle"
    /\ tool \in EndpointCheckTools
    /\ HasRoom(IF tool \in AskClaudeTools THEN 2 ELSE 0)
    /\ req' = [req EXCEPT ![t] = Request(tool, id, NoDoc, NoQuestion)]
    /\ IF InStore(SESSIONS, id)
       THEN /\ pc' = [pc EXCEPT ![t] = "ep_doc"]
            /\ UNCHANGED <<resp, document, sent>>
       ELSE Finish(t, Http500(NotInitialized(id)))
    /\ UNCHANGED <<SESSIONS, heap, messages>>

\* mcp_tools.py:137, 194, 226 -- document = SESSIONS[id]["document"].
EndpointDocument(t) ==
    /\ pc[t] = "ep_doc"
    /\ NoneDone
    /\ IF req[t].session_id \in DOMAIN SESSIONS
       THEN /\ document' = [document EXCEPT ![t] = SESSIONS[req[t].session_id].document]
            /\ pc' = [pc EXCEPT ![t] = IF req[t].endpoint = "analyze_complications" THEN "an_wait" ELSE "ac_check"]
            /\ UNCHANGED <<resp, sent>>
       ELSE Finish(t, Http500(KeyErrorText(req[t].session_id)))
    /\ UNCHANGED <<SESSIONS, heap, req, messages, cli>>

\* mcp_tools.py:172-179 -- analyze_complications' own model call answers.
AnalyzeReply(t, text) ==
    /\ pc[t] = "an_wait"
    /\ NoneDone
    /\ Finish(t, Ok(ResponseField(req[t].endpoint), text))
    /\ UNCHANGED <<SESSIONS, heap, req, messages, cli>>

\* mcp_tools.py:180-182 -- analyze_complications' own model call raises.
AnalyzeFail(t) ==
    /\ pc[t] = "an_wait"
    /\ NoneDone
    /\ Finish(t, Http500(BackendErrorText))
    /\ UNCHANGED <<SESSIONS, heap, req, messages, cli>>

\* --------------------------------------------------------------- ask_claude
\* Mutant: ask_claude without its membership test.
AskClaudeCheckSkipped(t, id) ==
    /\ pc' = [pc EXCEPT ![t] = "ac_append"]
    /\ UNCHANGED <<resp, document, sent>>

\* mcp_tools.py:59-60, and what the endpoint makes of the HTTPException.
AskClaudeCheckOutcome(t, id) ==
    IF InStore(SESSIONS, id)
    THEN /\ pc' = [pc EXCEPT ![t] = "ac_append"]
         /\ UNCHANGED <<resp, document, sent>>
    ELSE Finish(t, Http500(StrHTTPException(NotInitialized(id))))

\* /qa and /simplify (lines 101-125) go straight to ask_claude.
AskClaudeStart(t, tool, id, question) ==
    /\ pc[t] = "idle"
    /\ tool \in {"qa", "simplify"}
    /\ HasRoom(2)
    /\ req' = [req EXCEPT ![t] = Request(tool, id, NoDoc, IF tool = "qa" THEN question ELSE NoQuestion)]
    /\ AskClaudeCheckOutcome(t, id)
    /\ UNCHANGED <<SESSIONS, heap, messages>>

\* /validate_document and /extract_key_dates reach ask_claude after their own
\* test and read (lines 210, 254).
AskClaudeCheck(t) ==
    /\ pc[t] = "ac_check"
    /\ NoneDone
    /\ AskClaudeCheckOutcome(t, req[t].session_id)
    /\ UNCHANGED <<SESSIONS, heap, req, messages, cli>>

\* Mutant: SESSIONS.setdefault(session_id, ...) -- a missing session is made
\* on the spot, with the prompt as its history.
AskClaudeAppendCreating(t) ==
    /\ pc[t] = "ac_append"
    /\ NoneDone
    /\ LET id == req[t].session_id
           S1 == IF id \in DOMAIN SESSIONS THEN SESSIONS ELSE StoreSession(SESSIONS, id, NoDoc, FreshRef)
           h1 == IF id \in DOMAIN SESSIONS THEN heap ELSE [q \in DOMAIN heap \cup {FreshRef} |-> IF q = FreshRef THEN <<>> ELSE heap[q]]
           m1 == [messages EXCEPT ![t] = S1[id].messages]
       IN /\ SESSIONS' = NamedSessions(S1, m1)
          /\ heap' = NamedHeap(AppendPrompt(h1, S1[id].messages, ToolPrompt(req[t], document[t])), S1, m1)
          /\ messages' = NamedMessages(S1, m1)
    /\ pc' = [pc EXCEPT ![t] = "ac_send"]
    /\ UNCHANGED <<resp, document, sent, req, cli>>

\* mcp_tools.py:62-63 -- fetch the session's list and append the prompt to it.
AskClaudeAppend(t) ==
    /\ pc[t] = "ac_append"
    /\ NoneDone
    /\ IF req[t].session_id \in DOMAIN SESSIONS
       THEN LET r == SESSIONS[req[t].session_id].messages
            IN /\ messages' = [messages EXCEPT ![t] = r]
               /\ heap' = AppendPrompt(heap, r, ToolPrompt(req[t], document[t]))
               /\ pc' = [pc EXCEPT ![t] = "ac_send"]
               /\ UNCHANGED <<resp, document, sent>>
       ELSE /\ Finish(t, Http500(StrHTTPException(KeyErrorText(req[t].session_id))))
            /\ UNCHANGED <<heap, messages>>
    /\ UNCHANGED <<SESSIONS, req, cli>>

\* mcp_tools.py:65-70 -- the request goes out with the list as it is now.
AskClaudeSend(t) ==
    /\ pc[t] = "ac_send"
    /\ NoneDone
    /\ sent' = [sent EXCEPT ![t] = heap[messages[t]]]
    /\ pc' = [pc EXCEPT ![t] = "ac_wait"]
    /\ UNCHANGED <<SESSIONS, heap, req, document, messages, resp, cli>>

\* Mutant: the reply goes to SESSIONS[session_id]["messages"], looked up again
\* when the model has answered.
AskClaudeReplyLooksUpAgain(t, text) ==
    /\ pc[t] = "ac_wait"
    /\ NoneDone
    /\ LET m1 == [messages EXCEPT ![t] = NoRef]
       IN /\ messages' = NamedMessages(SESSIONS, m1)
          /\ IF req[t].session_id \in DOMAIN SESSIONS
             THEN /\ heap' = NamedHeap(AppendReply(heap, SESSIONS[req[t].session_id].messages, text), SESSIONS, m1)
                  /\ Finish(t, Ok(ResponseField(req[t].endpoint), text))
             ELSE /\ heap' = NamedHeap(heap, SESSIONS, m1)
                  /\ Finish(t, Http500(StrHTTPException(KeyErrorText(req[t].session_id))))
    /\ UNCHANGED <<SESSIONS, req, cli>>

\* mcp_tools.py:72-74 -- the model answers: append the reply, return the text.
AskClaudeReply(t, text) ==
    /\ pc[t] = "ac_wait"
    /\ NoneDone
    /\ LET m1 == [messages EXCEPT ![t] = NoRef]
       IN /\ messages' = NamedMessages(SESSIONS, m1)
          /\ heap' = NamedHeap(AppendReply(heap, messages[t], text), SESSIONS, m1)
    /\ Finish(t, Ok(ResponseField(req[t].endpoint), text))
    /\ UNCHANGED <<SESSIONS, req, cli>>

\* Mutant: the handler takes the last entry off the list before it raises.
AskClaudeFailRollsBack(t) ==
    /\ pc[t] = "ac_wait"
    /\ NoneDone
    /\ LET m1 == [messages EXCEPT ![t] = NoRef]
           h1 == [heap EXCEPT ![messages[t]] = SubSeq(@, 1, Len(@) - 1)]
       IN /\ messages' = NamedMessages(SESSIONS, m1)
          /\ heap' = NamedHeap(h1, SESSIONS, m1)
    /\ Finish(t, Http500(StrHTTPException(BackendErrorText)))
    /\ UNCHANGED <<SESSIONS, req, cli>>

\* mcp_tools.py:76-78 -- the model call raises: nothing is taken back.
AskClaudeFail(t) ==
    /\ pc[t] = "ac_wait"
    /\ NoneDone
    /\ LET m1 == [messages EXCEPT ![t] = NoRef]
       IN /\ messages' = NamedMessages(SESSIONS, m1)
          /\ heap' = NamedHeap(heap, SESSIONS, m1)
    /\ Finish(t, Http500(StrHTTPException(BackendErrorText)))
    /\ UNCHANGED <<SESSIONS, req, cli>>

\* The response leaves; the worker thread is free again.
Deliver(t) ==
    /\ pc[t] = "done"
    /\ pc' = [pc EXCEPT ![t] = "idle"]
    /\ req' = [req EXCEPT ![t] = NoReq]
    /\ resp' = [resp EXCEPT ![t] = NoResp]
    /\ UNCHANGED <<SESSIONS, heap, document, messages, sent>>

\* The steps of a handler after its first.
ServerStep(t) ==
    \/ ResetDel(t)
    \/ EndpointDocument(t)
    \/ AskClaudeCheck(t)
    \/ AskClaudeAppend(t)
    \/ AskClaudeSend(t)
    \/ \E text \in Replies : AskClaudeReply(t, text)
    \/ AskClaudeFail(t)
    \/ \E text \in Replies : AnalyzeReply(t, text)
    \/ AnalyzeFail(t)

\* The worker threads are interchangeable: a request goes to the first idle one.
FirstIdle(t) == NoneDone /\ pc[t] = "idle" /\ \A u \in Threads : pc[u] = "idle" => t <= u

\* The questions a /qa request may carry.
QaQuestions == {<<"w", "h", "o">>}

\* Any client may send any request at any time.
PostInitSession(t) ==
    \E i \in InitRequests : FirstIdle(t) /\ InitSession(t, i[1], i[2]) /\ UNCHANGED cli

PostResetSession(t) ==
    \E id \in SessionIds : FirstIdle(t) /\ ResetCheck(t, id) /\ UNCHANGED cli

PostEndpointCheckTool(t) ==
    \E tool \in EndpointCheckTools, id \in SessionIds : FirstIdle(t) /\ EndpointCheck(t, tool, id) /\ UNCHANGED cli

PostAskClaudeTool(t) ==
    \E tool \in {"qa", "simplify"}, id \in SessionIds, q \in QaQuestions :
        FirstIdle(t) /\ AskClaudeStart(t, tool, id, q) /\ UNCHANGED cli

Respond(t) == Deliver(t) /\ UNCHANGED cli

\* ----------------------------------------------------------- classify_intent
\* A string is the sequence of its characters.
UpperChars == <<"A", "B", "C", "D", "E", "F", "G", "H", "I", "J", "K", "L", "M", "N", "O", "P", "Q", "R", "S", "T", "U", "V", "W", "X", "Y", "Z">>
LowerChars == <<"a", "b", "c", "d", "e", "f", "g", "h", "i", "j", "k", "l", "m", "n", "o", "p", "q", "r", "s", "t", "u", "v", "w", "x", "y", "z">>

\* str.lower(), a character at a time (chatbot.py:65).
LowerChar(c) ==
    IF \E i \in DOMAIN UpperChars : UpperChars[i] = c
    THEN LowerChars[CHOOSE i \in DOMAIN UpperChars : UpperChars[i] = c]
    ELSE c
Lower(str) == [i \in DOMAIN str |-> LowerChar(str[i])]

\* `word in q` on strings: q has word as a substring.
Contains(q, word) ==
    \E i \in 1..(Len(q) - Len(word) + 1) : SubSeq(q, i, i + Len(word) - 1) = word

\* any(word in q for word in words).
AnyWordIn(words, q) == \E k \in DOMAIN words : Contains(q, words[k])

\* The keyword lists of chatbot.py:66, 68, 70, 72.
RiskWords == <<<<"r", "i", "s", "k">>, <<"p", "r", "o", "b", "l", "e", "m">>, <<"c", "o", "n", "t", "r", "a", "d", "i", "c", "t", "i", "o", "n">>, <<"i", "s", "s", "u", "e">>, <<"a", "m", "b", "i", "g", "u", "i", "t", "y">>>>
PlainWords == <<<<"p", "l", "a", "i", "n", " ", "e", "n", "g", "l", "i", "s", "h">>, <<"s", "i", "m", "p", "l", "i", "f", "y">>, <<"e", "x", "p", "l", "a", "i", "n">>>>
ContractWords == <<<<"i", "s", " ", "t", "h", "i", "s", " ", "a", " ", "c", "o", "n", "t", "r", "a", "c", "t">>, <<"l", "e", "g", "a", "l", " ", "d", "o", "c", "u", "m", "e", "n", "t">>>>
DateWords == <<<<"d", "a", "t", "e">>, <<"d", "e", "a", "d", "l", "i", "n", "e">>, <<"m", "i", "l", "e", "s", "t", "o", "n", "e">>, <<"e", "x", "p", "i", "r", "e">>, <<"r", "e", "n", "e", "w", "a", "l">>>>

\* Mutant: the date keywords tested before the risk keywords.
classify_intent_dates_first(question) ==
    LET q == Lower(question)
    IN IF AnyWordIn(DateWords, q) THEN "extract_key_dates"
       ELSE IF AnyWordIn(RiskWords, q) THEN "analyze_complications"
       ELSE IF AnyWordIn(PlainWords, q) THEN "simplify"
       ELSE IF AnyWordIn(ContractWords, q) THEN "validate_document"
       ELSE "qa"

\* chatbot.py:61-75.
classify_intent(question) ==
    LET q == Lower(question)
    IN IF AnyWordIn(RiskWords, q) THEN "analyze_complications"
       ELSE IF AnyWordIn(PlainWords, q) THEN "simplify"
       ELSE IF AnyWordIn(ContractWords, q) THEN "validate_document"
       ELSE IF AnyWordIn(DateWords, q) THEN "extract_key_dates"
       ELSE "qa"

\* The pieces the questions of the model are put together from.
Fragments == 
    <<<<"R", "i", "s", "k">>,
      <<"i", "s", "s", "u", "e">>,
      <<" ">>,
      <<"p", "l", "a", "i", "n">>,
      <<"E", "n", "g", "l", "i", "s", "h">>,
      <<"E", "X", "P", "L", "A", "I", "N">>,
      <<"I", "s", " ", "t", "h", "i", "s", " ", "a", " ", "c", "o", "n", "t", "r", "a", "c", "t">>,
      <<"l", "e", "g", "a", "l">>,
      <<" ", "d", "o", "c", "u", "m", "e", "n", "t">>,
      <<"u", "p">>,
      <<"d", "a", "t", "e">>,
      <<"e", "x", "p", "i", "r", "e">>,
      <<"w", "h", "o">>>>

\* Every question of at most MaxFrags pieces.
RECURSIVE Concatenations(_)
Concatenations(n) ==
    IF n = 0 THEN {<<>>}
    ELSE LET shorter == Concatenations(n - 1)
         IN shorter \cup {s \o Fragments[k] : s \in shorter, k \in DOMAIN Fragments}
Questions == Concatenations(MaxFrags)

\* ------------------------------------------------------------ chat_with_bot
\* chatbot.py:29, 33 -- the client's own session id and document.
SESSION_ID == "A"
DOCUMENT == "d1"

\* The queries the user types (each is one of Questions): one with no keyword,
\* one with keywords of two groups, one with a keyword inside another word.
ChatQueries ==
    { <<"w", "h", "o">>,
      <<"R", "i", "s", "k">> \o <<" ">> \o <<"d", "a", "t", "e">>,
      <<"u", "p">> \o <<"d", "a", "t", "e">> }

\* What the tool-choice model call (chatbot.py:105-122) can give: it raises; it
\* answers with no tool_use block; it answers with a tool_use block whose input
\* names a tool of the enum, names something else, or has no "tool" at all.
ModelResponses ==
    {[kind |-> "raise", tool |-> "-"], [kind |-> "text", tool |-> "-"]}
    \cup {[kind |-> "tool_use", tool |-> x] : x \in Tools \cup {"summarize", "-"}}

NoResponse == [kind |-> "-", tool |-> "-"]
NoToolUse == [tool |-> "-", reason |-> "-"]
NoResult == [kind |-> "-", endpoint |-> "-", text |-> NoText]

\* Mutant: the label of a tool_use block is taken without the enum test.
ChooseToolUnchecked(r, query) ==
    IF r.kind # "tool_use"
    THEN [tool |-> classify_intent(query), reason |-> "Fallback classifier used"]
    ELSE [tool |-> r.tool, reason |-> "model"]

\* Mutant: the keyword classifier is asked first, the model's label counts only
\* when no keyword matched.
ChooseToolKeywordsFirst(r, query) ==
    IF r.kind # "tool_use" \/ r.tool \notin Tools \/ classify_intent(query) # "qa"
    THEN [tool |-> classify_intent(query), reason |-> "Fallback classifier used"]
    ELSE [tool |-> r.tool, reason |-> "model"]

\* chatbot.py:125-135 -- the tool_use chat_with_bot goes on with.
ChooseTool(r, query) ==
    IF r.kind # "tool_use" \/ r.tool \notin Tools
    THEN [tool |-> classify_intent(query), reason |-> "Fallback classifier used"]
    ELSE [tool |-> r.tool, reason |-> "model"]

ChatError(endpoint) == [kind |-> "error", endpoint |-> endpoint, text |-> NoText]

\* chatbot.py:162 -- the client starts by sending its document.
ClientInit(t) ==
    /\ cpc = "start"
    /\ FirstIdle(t)
    /\ InitSession(t, SESSION_ID, DOCUMENT)
    /\ cpc' = "init_wait"
    /\ UNCHANGED <<user_query, response, tool_use, result>>

\* chatbot.py:42-47, 162 -- the answer to it; a failure ends the program.
ClientInitReturn(t) ==
    /\ cpc = "init_wait"
    /\ Deliver(t)
    /\ cpc' = IF resp[t].status = 200 THEN "ready" ELSE "exited"
    /\ UNCHANGED <<user_query, response, tool_use, result>>

\* chatbot.py:164-166 -- the user leaves.
ClientQuit ==
    /\ cpc = "ready"
    /\ cpc' = "exited"
    /\ UNCHANGED <<srv, user_query, response, tool_use, result>>

\* chatbot.py:82-137, 154-156 -- the tool choice.  The model call is inside the
\* function's one try block: when it raises, the handler at line 154 returns
\* the error text, and nothing after line 122 runs.
ChatDecide(query, r) ==
    /\ cpc = "ready"
    /\ user_query' = query
    /\ response' = r
    /\ IF r.kind = "raise"
       THEN /\ tool_use' = NoToolUse
            /\ result' = ChatError("-")
            /\ cpc' = "ready"
       ELSE /\ tool_use' = ChooseTool(r, query)
            /\ result' = NoResult
            /\ cpc' = "dispatch"
    /\ UNCHANGED srv

\* chatbot.py:140-149 -- the request to the endpoint the tool names.
ChatDispatch(t) ==
    /\ cpc = "dispatch"
    /\ tool_use.tool \in Tools
    /\ FirstIdle(t)
    /\ IF tool_use.tool \in EndpointCheckTools
       THEN EndpointCheck(t, tool_use.tool, SESSION_ID)
       ELSE AskClaudeStart(t, tool_use.tool, SESSION_ID, user_query)
    /\ cpc' = "call_wait"
    /\ UNCHANGED <<user_query, response, tool_use, result>>

\* chatbot.py:150-152 -- no endpoint has that name.
ChatUnrecognized ==
    /\ cpc = "dispatch"
    /\ tool_use.tool \notin Tools
    /\ result' = [kind |-> "unrecognized", endpoint |-> "-", text |-> NoText]
    /\ cpc' = "ready"
    /\ UNCHANGED <<srv, user_query, response, tool_use>>

\* chatbot.py:42-47, 141-149, 154-156 -- the endpoint's answer: its response
\* field, or the error text when the status is not 200.
ChatReturn(t) ==
    /\ cpc = "call_wait"
    /\ Deliver(t)
    /\ result' = IF resp[t].status = 200
                 THEN [kind |-> "response", endpoint |-> req[t].endpoint, text |-> resp[t].text]
                 ELSE ChatError(req[t].endpoint)
    /\ cpc' = "ready"
    /\ UNCHANGED <<user_query, response, tool_use>>

ServerInit ==
    /\ SESSIONS = <<>>
    /\ heap = <<>>
    /\ pc = [t \in Threads |-> "idle"]
    /\ req = [t \in Threads |-> NoReq]
    /\ document = [t \in Threads |-> NoDoc]
    /\ messages = [t \in Threads |-> NoRef]
    /\ sent = [t \in Threads |-> <<>>]
    /\ resp = [t \in Threads |-> NoResp]

ClientOff ==
    /\ cpc = "off"
    /\ user_query = NoQuestion
    /\ response = NoResponse
    /\ tool_use = NoToolUse
    /\ result = NoResult

Init == ServerInit /\ ClientOff

Next ==
    \E t \in Threads :
        \/ PostInitSession(t)
        \/ PostResetSession(t)
        \/ PostEndpointCheckTool(t)
        \/ PostAskClaudeTool(t)
        \/ ServerStep(t)
        \/ Respond(t)

Spec == Init /\ [][Next]_vars

\* The client with the server to itself: no one else knows its session id.
InitChat ==
    /\ ServerInit
    /\ cpc = "start"
    /\ user_query = NoQuestion
    /\ response = NoResponse
    /\ tool_use = NoToolUse
    /\ result = NoResult

NextChat ==
    \/ \E t \in Threads : ClientInit(t)
    \/ \E t \in Threads : ClientInitReturn(t)
    \/ ClientQuit
    \/ \E query \in ChatQueries, r \in ModelResponses : ChatDecide(query, r)
    \/ \E t \in Threads : ChatDispatch(t)
    \/ \E t \in Threads : ChatReturn(t)
    \/ \E t \in Threads : EndpointDocument(t)
    \/ \E t \in Threads : AskClaudeCheck(t)
    \/ \E t \in Threads : AskClaudeAppend(t)
    \/ \E t \in Threads : AskClaudeSend(t)
    \/ \E t \in Threads, text \in Replies : AskClaudeReply(t, text)
    \/ \E t \in Threads : AskClaudeFail(t)
    \/ \E t \in Threads, text \in Replies : AnalyzeReply(t, text)
    \/ \E t \in Threads : AnalyzeFail(t)

SpecChat == InitChat /\ [][NextChat]_vars

\* classify_intent on its own, for every question.
InitClassify ==
    /\ ServerInit
    /\ cpc = "classify"
    /\ user_query \in Questions
    /\ response = NoResponse
    /\ tool_use = NoToolUse
    /\ result = NoResult

Classify ==
    /\ cpc = "classify"
    /\ tool_use' = [tool |-> classify_intent(user_query), reason |-> "Fallback classifier used"]
    /\ cpc' = "classified"
    /\ UNCHANGED <<srv, user_query, response, result>>

SpecClassify == InitClassify /\ [][Classify]_vars

\* ================================================================== claims
\* A step of thread t that takes up a tool request (the handler's first test).
ToolCallStarts(t) == pc[t] = "idle" /\ pc'[t] # "idle" /\ req'[t].endpoint \in Tools

\* A step of thread t with which its tool call returns.
ToolCallReturns(t) == pc[t] # "done" /\ pc'[t] = "done" /\ req'[t].endpoint \in Tools

\* The step of thread t that is init_session(id).
InitSessionStep(t, id) ==
    pc[t] = "idle" /\ pc'[t] = "done" /\ req'[t].endpoint = "init_session" /\ req'[t].session_id = id

\* The step of thread t that is the delete of reset_session(id).
ResetDelStep(t, id) == pc[t] = "rs_del" /\ pc'[t] = "done" /\ req[t].session_id = id

\* The response is the "session not initialized" error for id, as an HTTP 500.
IsNotInitialized(r, id) == r.status = 500 /\ r.detail.kind = "not_initialized" /\ r.detail.id = id

IsPrefix(a, b) == Len(a) <= Len(b) /\ SubSeq(b, 1, Len(a)) = a

\* C1: a tool call (any of the five) that finds its session id absent from the
\* store returns at once, with an HTTP 500 whose text is the "session not
\* initialized" error for that id, whatever happened to other ids before.
C1_UnknownSessionFails ==
    [][\A t \in Threads :
          (ToolCallStarts(t) /\ req'[t].session_id \notin DOMAIN SESSIONS)
          => (pc'[t] = "done" /\ IsNotInitialized(resp'[t], req'[t].session_id))]_vars

\* C1 witness: a qa call on the absent id A has failed so, while session B is
\* there with a history of its own.
C1_Witness ==
    \E t \in Threads :
        /\ pc[t] = "done" /\ req[t].endpoint = "qa" /\ req[t].session_id = "A"
        /\ IsNotInitialized(resp[t], "A")
        /\ "A" \notin DOMAIN SESSIONS /\ "B" \in DOMAIN SESSIONS /\ Len(History("B")) >= 3

\* C2: init_session(id) puts id into the store, and a tool call on an id fails
\* only at a step where the id is absent from the store or where the model
\* backend raises; a call that returns 200 returns its own response field.
C2_InitializedSucceeds ==
    [][\A t \in Threads :
          /\ \A id \in SessionIds : InitSessionStep(t, id) => id \in DOMAIN SESSIONS'
          /\ (ToolCallReturns(t) /\ resp'[t].status # 200)
             => (req'[t].session_id \notin DOMAIN SESSIONS \/ pc[t] \in {"ac_wait", "an_wait"})
          /\ (ToolCallReturns(t) /\ resp'[t].status = 200)
             => resp'[t].field = ResponseField(req'[t].endpoint)]_vars

\* C2 witness: a validate_document call on A has succeeded after another tool
\* call on A had appended its prompt and reply.
C2_Witness ==
    \E t \in Threads :
        /\ pc[t] = "done" /\ req[t].endpoint = "validate_document" /\ req[t].session_id = "A"
        /\ resp[t].status = 200 /\ resp[t].field = "validation"
        /\ "A" \in DOMAIN SESSIONS /\ Len(History("A")) = 5

\* C3: the delete of reset_session(id) leaves id out of the store; an id comes
\* into the store only by init_session(id); and a tool call that finds id out
\* of the store fails as uninitialized.
C3_ResetThenUninitialized ==
    [][/\ \A t \in Threads, id \in SessionIds : ResetDelStep(t, id) => id \notin DOMAIN SESSIONS'
       /\ \A id \in SessionIds :
            (id \notin DOMAIN SESSIONS /\ id \in DOMAIN SESSIONS')
            => \E t \in Threads : InitSessionStep(t, id)
       /\ \A t \in Threads :
            (ToolCallStarts(t) /\ req'[t].session_id \notin DOMAIN SESSIONS)
            => (pc'[t] = "done" /\ resp'[t].status = 500 /\ resp'[t].detail.kind = "not_initialized")]_vars

\* C3 witness: reset_session(A) has answered "cleared" and A is out of the
\* store, while B is still in it.
C3_Witness ==
    \E t \in Threads :
        /\ pc[t] = "done" /\ req[t].endpoint = "reset_session" /\ req[t].session_id = "A"
        /\ resp[t].status = 200 /\ resp[t].text = "cleared"
        /\ "A" \notin DOMAIN SESSIONS /\ "B" \in DOMAIN SESSIONS

\* C4 (as claimed): when a tool call (any of the five) returns 200 on a
\* session in the store, with no other request being handled, the session's
\* history is the history before that step with the assistant reply appended
\* to it, and the entry before the reply is a user entry.
C4_EveryToolAppends ==
    [][\A t \in Threads :
          (/\ ToolCallReturns(t) /\ resp'[t].status = 200
           /\ \A u \in Threads \ {t} : pc[u] = "idle"
           /\ req[t].session_id \in DOMAIN SESSIONS
           /\ req[t].session_id \in DOMAIN SESSIONS')
          => /\ heap'[SESSIONS'[req[t].session_id].messages]
                  = Append(History(req[t].session_id), AssistantMessage(resp'[t].text))
             /\ History(req[t].session_id)[Len(History(req[t].session_id))].role = "user"]_vars

\* C4, the part that holds: an ask_claude tool call appends its prompt to the
\* session's list at line 63 and the reply to the list it holds at line 73
\* (still the session's list unless an init_session or reset_session of that
\* id came between); every other step of a tool call, and every step of
\* analyze_complications, leaves every list as it is.
C4_AskClaudeToolsAppend ==
    [][\A t \in Threads :
          (pc'[t] # pc[t] /\ (IF pc[t] = "idle" THEN req'[t] ELSE req[t]).endpoint \in Tools)
          => IF pc[t] = "ac_append" /\ pc'[t] = "ac_send"
             THEN /\ messages'[t] = SESSIONS[req[t].session_id].messages
                  /\ heap' = [heap EXCEPT ![messages'[t]] = Append(@, ToolPrompt(req[t], document[t]))]
             ELSE IF pc[t] = "ac_wait" /\ resp'[t].status = 200
             THEN \A id \in DOMAIN SESSIONS :
                      IF SESSIONS[id].messages = messages[t]
                      THEN heap'[SESSIONS'[id].messages] = Append(History(id), AssistantMessage(resp'[t].text))
                      ELSE heap'[SESSIONS'[id].messages] = History(id)
             ELSE \A id \in DOMAIN SESSIONS : heap'[SESSIONS'[id].messages] = History(id)]_vars

\* C5 (as claimed): whenever the model's tool choice is unavailable (the call
\* raised, the answer has no tool_use block, or its label is not in the enum),
\* the keyword classifier has decided the tool, and the endpoint called is the
\* one it names.
DecisionUnavailable ==
    response.kind \in {"raise", "text"} \/ (response.kind = "tool_use" /\ response.tool \notin Tools)
C5_FallbackWheneverUnavailable ==
    DecisionUnavailable
    => /\ tool_use = [tool |-> classify_intent(user_query), reason |-> "Fallback classifier used"]
       /\ (cpc = "ready" => result.endpoint = tool_use.tool)

\* C5, the part that holds: when the model call returns with no tool_use block,
\* or with a label outside the enum, the keyword classifier has decided the
\* tool, and the endpoint called is the one it names.
C5_FallbackWhenAnswered ==
    (DecisionUnavailable /\ response.kind # "raise")
    => /\ tool_use = [tool |-> classify_intent(user_query), reason |-> "Fallback classifier used"]
       /\ (cpc = "ready" => result.endpoint = tool_use.tool)

\* C6: classify_intent returns the label of the first keyword group, in the
\* order risk, plain language, contract identification, dates, one of whose
\* keywords is a substring of the lower-cased question, and "qa" when none is.
KeywordGroups ==
    << [words |-> RiskWords, label |-> "analyze_complications"],
       [words |-> PlainWords, label |-> "simplify"],
       [words |-> ContractWords, label |-> "validate_document"],
       [words |-> DateWords, label |-> "extract_key_dates"] >>
GroupMatches(g, question) ==
    \E k \in DOMAIN KeywordGroups[g].words, i \in 1..Len(question) :
        /\ i + Len(KeywordGroups[g].words[k]) - 1 <= Len(question)
        /\ \A j \in 1..Len(KeywordGroups[g].words[k]) :
             LowerChar(question[i + j - 1]) = KeywordGroups[g].words[k][j]
FirstMatchLabel(question) ==
    IF \A g \in DOMAIN KeywordGroups : ~GroupMatches(g, question)
    THEN "qa"
    ELSE KeywordGroups[CHOOSE g \in DOMAIN KeywordGroups :
                           /\ GroupMatches(g, question)
                           /\ \A f \in 1..(g - 1) : ~GroupMatches(f, question)].label
C6_FirstGroupWins == cpc = "classified" => tool_use.tool = FirstMatchLabel(user_query)

\* C6 witness: a question with a risk keyword (in capitals) and a date keyword
\* has been classified as analyze_complications.
C6_Witness ==
    /\ cpc = "classified"
    /\ GroupMatches(1, user_query) /\ GroupMatches(4, user_query)
    /\ \E i \in DOMAIN user_query : user_query[i] = "R"
    /\ tool_use.tool = "analyze_complications"

\* C7: after init_session(id, document), whatever the store held for id, id
\* maps to that document and to a history of one entry, the initial user
\* message carrying the document.
C7_InitCreatesOrOverwrites ==
    [][\A t \in Threads, id \in SessionIds :
          InitSessionStep(t, id)
          => /\ id \in DOMAIN SESSIONS'
             /\ SESSIONS'[id].document = req'[t].document
             /\ heap'[SESSIONS'[id].messages] = <<InitialMessage(req'[t].document)>>]_vars

\* C7 witness: init_session(A, d2) has answered while a tool call on A, begun
\* on the session it replaced, still holds the old history.
C7_Witness ==
    \E t, u \in Threads :
        /\ pc[t] = "done" /\ req[t].endpoint = "init_session" /\ req[t].session_id = "A"
        /\ req[t].document = "d2"
        /\ pc[u] = "ac_wait" /\ req[u].session_id = "A"
        /\ messages[u] # SESSIONS["A"].messages
        /\ heap[messages[u]][1] = InitialMessage("d1")

\* C8 (as claimed): reset_session never fails.
C8_ResetNeverFails ==
    \A t \in Threads : (pc[t] = "done" /\ req[t].endpoint = "reset_session") => resp[t].status = 200

\* C8, the part that holds: reset_session answers "not found" when its test
\* finds the id absent, "cleared" when its delete finds the id present, and
\* fails only when the id left the store between its test and its delete.
C8_ResetFailsOnlyWhenOvertaken ==
    [][\A t \in Threads :
          /\ (pc[t] = "idle" /\ pc'[t] # "idle" /\ req'[t].endpoint = "reset_session")
             => IF req'[t].session_id \in DOMAIN SESSIONS
                THEN pc'[t] = "rs_del"
                ELSE pc'[t] = "done" /\ resp'[t] = Ok("message", "not found") /\ SESSIONS' = SESSIONS
          /\ (pc[t] = "rs_del" /\ pc'[t] = "done")
             => IF req[t].session_id \in DOMAIN SESSIONS
                THEN resp'[t] = Ok("message", "cleared") /\ req[t].session_id \notin DOMAIN SESSIONS'
                ELSE resp'[t].status = 500 /\ SESSIONS' = SESSIONS]_vars

\* C9 (as claimed): while an id stays in the store its document does not change
\* and its history only grows, under every operation.
C9_AppendOnlyUnderEveryOperation ==
    [][\A id \in SessionIds :
          (id \in DOMAIN SESSIONS /\ id \in DOMAIN SESSIONS')
          => /\ SESSIONS'[id].document = SESSIONS[id].document
             /\ IsPrefix(History(id), heap'[SESSIONS'[id].messages])]_vars

\* C9 (amended): while an id stays in the store, every step other than an
\* init_session on that id leaves its document as it is and its history with
\* the earlier history as a prefix.
C9_AppendOnlyBetweenInits ==
    [][\A id \in SessionIds :
          (/\ id \in DOMAIN SESSIONS /\ id \in DOMAIN SESSIONS'
           /\ ~ \E t \in Threads : InitSessionStep(t, id))
          => /\ SESSIONS'[id].document = SESSIONS[id].document
             /\ IsPrefix(History(id), heap'[SESSIONS'[id].messages])]_vars

\* C9 witness: session A has a history of five entries (two calls appended to
\* it) under the document it was created with.
C9_Witness ==
    /\ "A" \in DOMAIN SESSIONS
    /\ Len(History("A")) = 5
    /\ History("A")[1] = InitialMessage(SESSIONS["A"].document)

\* C10: an id leaves the store only by the delete of a reset_session on that id.
C10_NoEviction ==
    [][\A id \in SessionIds :
          (id \in DOMAIN SESSIONS /\ id \notin DOMAIN SESSIONS')
          => \E t \in Threads : ResetDelStep(t, id) /\ resp'[t].status = 200]_vars

\* C10 witness: a tool call on A has failed at the model backend, an
\* init_session of B has happened, and A is still in the store.
C10_Witness ==
    \E t \in Threads :
        /\ pc[t] = "done" /\ req[t].endpoint \in Tools /\ req[t].session_id = "A"
        /\ resp[t].status = 500 /\ resp[t].detail.kind = "backend_error"
        /\ "A" \in DOMAIN SESSIONS /\ "B" \in DOMAIN SESSIONS
        /\ Len(History("A")) >= 2

\* C11: two ask_claude calls on one session id race on its history list.
\* Calls are executed one at a time when no two worker threads are busy.
OneAtATime == \A t, u \in Threads : t # u => (pc[t] = "idle" \/ pc[u] = "idle")

\* The last entry of a list.
Last(list) == list[Len(list)]

\* Each call in flight finds its own prompt last in the list, was sent the list
\* as it still is, and a reply that came back sits right after its prompt at
\* the end of the session's history.
ReplyFollowsOwnPrompt ==
    \A t \in Threads :
        /\ pc[t] = "ac_send" => Last(heap[messages[t]]) = ToolPrompt(req[t], document[t])
        /\ pc[t] = "ac_wait"
           => /\ heap[messages[t]] = sent[t]
              /\ Last(sent[t]) = ToolPrompt(req[t], document[t])
        /\ (pc[t] = "done" /\ req[t].endpoint \in AskClaudeTools /\ resp[t].status = 200)
           => /\ req[t].session_id \in DOMAIN SESSIONS
              /\ Len(History(req[t].session_id)) >= 3
              /\ LET h == History(req[t].session_id)
                 IN /\ h[Len(h)] = AssistantMessage(resp[t].text)
                    /\ h[Len(h) - 1] = ToolPrompt(req[t], SESSIONS[req[t].session_id].document)

\* C11: in every run in which the calls are executed one at a time, each model
\* call is sent a history that ends with its own prompt and each reply directly
\* follows its own prompt; with overlapping calls the state of C11_Witness,
\* where this fails, is reached.
C11_OneAtATimeNoRace == []OneAtATime => []ReplyFollowsOwnPrompt

\* C11 witness: a qa call and a simplify call on A overlapped; both prompts
\* went in before either reply, the simplify call was sent a history holding
\* the qa call's unanswered prompt, and the qa call's reply, now in, follows
\* the simplify prompt and not its own.
C11_Witness ==
    \E t, u \in Threads :
        /\ pc[t] = "done" /\ req[t].endpoint = "qa" /\ req[t].session_id = "A" /\ resp[t].status = 200
        /\ pc[u] = "ac_wait" /\ req[u].endpoint = "simplify" /\ req[u].session_id = "A"
        /\ "A" \in DOMAIN SESSIONS /\ messages[u] = SESSIONS["A"].messages
        /\ Len(History("A")) = 4
        /\ History("A")[2] = ToolPrompt(req[t], NoDoc)
        /\ History("A")[3] = ToolPrompt(req[u], NoDoc)
        /\ History("A")[4] = AssistantMessage(resp[t].text)
        /\ sent[u] = SubSeq(History("A"), 1, 3)
        /\ ~ReplyFollowsOwnPrompt

\* C12: the model's tool choice is a tool_use block with a label of the enum.
ModelChose == response.kind = "tool_use" /\ response.tool \in Tools

\* The request chat_with_bot sends for a label (chatbot.py:140-149).
RequestFor(label, query) ==
    Request(label, SESSION_ID, NoDoc, IF label = "qa" THEN query ELSE NoQuestion)

\* The step with which chat_with_bot sends its request.
ChatCalls == cpc = "dispatch" /\ cpc' = "call_wait"

\* The step with which the endpoint's answer comes back to chat_with_bot.
ChatGetsAnswer == cpc = "call_wait" /\ cpc' = "ready"

\* The worker threads that take up a request in this step.
Taken == {t \in Threads : pc[t] = "idle" /\ pc'[t] # "idle"}

\* C12 (as claimed): when the model chose a label of the enum, chat_with_bot
\* goes on with that label, sends one request, to the endpoint of that label
\* (with the question only for qa), and returns that endpoint's response field.
C12_ModelLabelReturnsField ==
    [][ModelChose'
       => /\ tool_use'.tool = response'.tool
          /\ ChatCalls => \E t \in Threads : Taken = {t} /\ req'[t] = RequestFor(response.tool, user_query)
          /\ (Taken # {} /\ cpc # "start") => ChatCalls
          /\ ChatGetsAnswer
             => /\ result'.kind = "response"
                /\ result'.endpoint = response.tool
                /\ \E t \in Threads :
                     /\ pc[t] = "done" /\ resp[t].field = ResponseField(response.tool)
                     /\ result'.text = resp[t].text]_vars

\* C12 (amended): as above, but the response field is what chat_with_bot
\* returns when the endpoint answered 200; when the endpoint failed it returns
\* the error text.
C12_ModelLabelDecides ==
    [][ModelChose'
       => /\ tool_use'.tool = response'.tool
          /\ ChatCalls => \E t \in Threads : Taken = {t} /\ req'[t] = RequestFor(response.tool, user_query)
          /\ (Taken # {} /\ cpc # "start") => ChatCalls
          /\ ChatGetsAnswer
             => \E t \in Threads :
                  /\ pc[t] = "done" /\ req[t] = RequestFor(response.tool, user_query)
                  /\ IF resp[t].status = 200
                     THEN /\ resp[t].field = ResponseField(response.tool)
                          /\ result' = [kind |-> "response", endpoint |-> response.tool, text |-> resp[t].text]
                     ELSE result' = ChatError(response.tool)]_vars

\* C12 witness: the query has a risk keyword, the model chose simplify, and
\* chat_with_bot has returned the reply of the simplify endpoint.
C12_Witness ==
    /\ cpc = "ready" /\ ModelChose /\ response.tool = "simplify"
    /\ classify_intent(user_query) = "analyze_complications"
    /\ result.kind = "response" /\ result.endpoint = "simplify" /\ result.text \in Replies
    /\ Len(History(SESSION_ID)) = 3
    /\ History(SESSION_ID)[2].kind = "simplify"

\* C13: the step with which the model call of thread t's ask_claude raises.
ModelCallFails(t) == pc[t] = "ac_wait" /\ pc'[t] = "done" /\ resp'[t].status # 200

\* The list ends with two user entries, the first of them a tool prompt.
EndsWithTwoPrompts(list) ==
    /\ Len(list) >= 3
    /\ list[Len(list) - 1].role = "user"
    /\ list[Len(list)].role = "user"

\* C13: when the model call of an ask_claude tool call raises, the call returns
\* an HTTP 500 and nothing is taken back: the store and every session's history
\* stay as they are, the call's prompt still in the list (and last in the
\* session's history when nothing came after it).  A later call appends its
\* prompt behind that unanswered prompt and sends the model the whole list,
\* which then ends with two consecutive user entries.
C13_FailedCallLeavesPrompt ==
    [][\A t \in Threads :
          /\ ModelCallFails(t)
             => /\ resp'[t] = Http500(StrHTTPException(BackendErrorText))
                /\ SESSIONS' = SESSIONS
                /\ \A id \in DOMAIN SESSIONS : heap'[SESSIONS'[id].messages] = History(id)
                /\ \E i \in 2..Len(heap[messages[t]]) :
                     heap[messages[t]][i] = ToolPrompt(req[t], document[t])
                /\ (/\ req[t].session_id \in DOMAIN SESSIONS
                    /\ SESSIONS[req[t].session_id].messages = messages[t]
                    /\ heap[messages[t]] = sent[t]
                    /\ Last(sent[t]) = ToolPrompt(req[t], document[t]))
                   => /\ Last(heap'[SESSIONS'[req[t].session_id].messages]) = ToolPrompt(req[t], document[t])
                      /\ Last(heap'[SESSIONS'[req[t].session_id].messages]).role = "user"
          /\ (pc[t] = "ac_append" /\ pc'[t] = "ac_send" /\ Len(History(req[t].session_id)) >= 2
              /\ Last(History(req[t].session_id)).role = "user")
             => EndsWithTwoPrompts(heap'[messages'[t]])
          /\ (pc[t] = "ac_send" /\ pc'[t] = "ac_wait") => sent'[t] = heap[messages[t]]]_vars

\* C13 witness: a simplify call on A failed at the model and left its prompt;
\* the qa call that came next was sent both prompts in a row and has
\* succeeded, so the history holds the simplify prompt with no reply to it.
C13_Witness ==
    \E t \in Threads :
        /\ pc[t] = "done" /\ req[t].endpoint = "qa" /\ req[t].session_id = "A" /\ resp[t].status = 200
        /\ \A u \in Threads \ {t} : pc[u] = "idle"
        /\ "A" \in DOMAIN SESSIONS /\ Len(History("A")) = 4
        /\ History("A")[2].kind = "simplify" /\ History("A")[2].role = "user"
        /\ History("A")[3] = ToolPrompt(req[t], NoDoc)
        /\ History("A")[4] = AssistantMessage(resp[t].text)

\* C14: thread t's ask_claude has appended its prompt to the history of id and
\* has not yet got the model's answer.
HoldsHistoryOf(t, id) ==
    /\ pc[t] \in {"ac_send", "ac_wait"}
    /\ id \in DOMAIN SESSIONS
    /\ messages[t] = SESSIONS[id].messages

\* The list thread t's ask_claude holds is no session's history any more.
Detached(t) ==
    /\ messages[t] # NoRef
    /\ \A id \in DOMAIN SESSIONS : SESSIONS[id].messages # messages[t]

\* C14: a reset_session or init_session of id, done while a tool call on id
\* waits for the model, leaves that call where it is, holding the old list
\* with its prompt; the store then has no session for id (reset) or a fresh
\* one-entry history (init).  The call fails only if the model raises; when the
\* model answers it returns 200 with the reply, and its reply goes to the old
\* list: the store and every session's history stay as they were.
C14_InFlightCallKeepsOldList ==
    [][\A t \in Threads :
          /\ \A id \in SessionIds, u \in Threads \ {t} :
               (HoldsHistoryOf(t, id) /\ (ResetDelStep(u, id) \/ InitSessionStep(u, id)))
               => /\ pc'[t] = pc[t] /\ req'[t] = req[t]
                  /\ heap'[messages'[t]] = heap[messages[t]]
                  /\ Detached(t)'
                  /\ IF ResetDelStep(u, id)
                     THEN id \notin DOMAIN SESSIONS' /\ resp'[u] = Ok("message", "cleared")
                     ELSE /\ id \in DOMAIN SESSIONS'
                          /\ heap'[SESSIONS'[id].messages] = <<InitialMessage(req'[u].document)>>
          /\ (Detached(t) /\ pc[t] = "ac_wait" /\ pc'[t] = "done")
             => /\ resp'[t].status = 200 \/ resp'[t] = Http500(StrHTTPException(BackendErrorText))
                /\ resp'[t].status = 200 => resp'[t].field = ResponseField(req[t].endpoint)
                /\ SESSIONS' = SESSIONS
                /\ \A id \in DOMAIN SESSIONS : heap'[SESSIONS'[id].messages] = History(id)]_vars

\* C14 witness: a qa call on A has returned its reply although reset_session(A)
\* took A out of the store while the call waited for the model; B is untouched.
C14_Witness ==
    \E t \in Threads :
        /\ pc[t] = "done" /\ req[t].endpoint = "qa" /\ req[t].session_id = "A"
        /\ resp[t].status = 200 /\ resp[t].field = "answer" /\ resp[t].text \in Replies
        /\ "A" \notin DOMAIN SESSIONS
        /\ "B" \in DOMAIN SESSIONS /\ History("B") = <<InitialMessage("d1")>>

\* The same with init_session(A, d2) in place of the reset: the store holds the
\* fresh one-entry history, without the call's prompt and reply.
C14_WitnessInit ==
    \E t \in Threads :
        /\ pc[t] = "done" /\ req[t].endpoint = "qa" /\ req[t].session_id = "A"
        /\ resp[t].status = 200 /\ resp[t].field = "answer"
        /\ "A" \in DOMAIN SESSIONS /\ SESSIONS["A"].document = "d2"
        /\ History("A") = <<InitialMessage("d2")>>

\* C15: the step leaves the store, the lists and what the calls in flight hold
\* and were sent as they are.
NoEffect == SESSIONS' = SESSIONS /\ heap' = heap /\ messages' = messages /\ sent' = sent

\* C15: a tool call whose id is not in the store, at its first test or at any
\* later look into the store before its prompt is appended, ends there with an
\* HTTP 500 and no effect: no session is made, no list changes, and the call
\* never got to its model call.
C15_UnknownIdNoEffect ==
    [][\A t \in Threads :
          /\ (ToolCallStarts(t) /\ req'[t].session_id \notin DOMAIN SESSIONS)
             => pc'[t] = "done" /\ resp'[t].status = 500 /\ NoEffect
          /\ (/\ pc[t] \in {"ep_doc", "ac_check", "ac_append"} /\ pc'[t] # pc[t]
              /\ req[t].session_id \notin DOMAIN SESSIONS)
             => pc'[t] = "done" /\ resp'[t].status = 500 /\ NoEffect
          /\ (pc'[t] \in {"ac_send", "an_wait"} /\ pc'[t] # pc[t])
             => req[t].session_id \in DOMAIN SESSIONS]_vars

\* C15 witness: an analyze_complications call on the absent id A has failed,
\* no call is at the model, and B's history, with a prompt and its reply, is
\* the only session.
C15_Witness ==
    \E t \in Threads :
        /\ pc[t] = "done" /\ req[t].endpoint = "analyze_complications" /\ req[t].session_id = "A"
        /\ IsNotInitialized(resp[t], "A")
        /\ DOMAIN SESSIONS = {"B"} /\ Len(History("B")) = 3
        /\ History("B")[3].role = "assistant"
        /\ \A u \in Threads : sent[u] = <<>> /\ messages[u] = NoRef

\* C16: the session id thread t's step acts for.
ActsFor(t) == IF pc[t] = "idle" THEN req'[t].session_id ELSE req[t].session_id

\* C16: a step of init_session, reset_session or a tool call issued with one
\* id, whether it ends well or in an error, leaves every session with another
\* id in or out of the store as it was, with its document and its history.
C16_SessionsIsolated ==
    [][\A t \in Threads, b \in SessionIds :
          (pc'[t] # pc[t] /\ pc[t] # "done" /\ b # ActsFor(t))
          => /\ (b \in DOMAIN SESSIONS) = (b \in DOMAIN SESSIONS')
             /\ b \in DOMAIN SESSIONS
                => /\ SESSIONS'[b].document = SESSIONS[b].document
                   /\ heap'[SESSIONS'[b].messages] = History(b)]_vars

\* C16 witness: A was initialized with d2 and a simplify call on it has put a
\* prompt and a reply into its history, while B still has its document d1
\* and its one-entry history.
C16_Witness ==
    \E t \in Threads :
        /\ pc[t] = "done" /\ req[t].endpoint = "simplify" /\ req[t].session_id = "A"
        /\ resp[t].status = 200
        /\ "A" \in DOMAIN SESSIONS /\ SESSIONS["A"].document = "d2" /\ Len(History("A")) = 3
        /\ "B" \in DOMAIN SESSIONS /\ SESSIONS["B"].document = "d1"
        /\ History("B") = <<InitialMessage("d1")>>

\* C17: whenever chat_with_bot stands at its dispatch or waits for the
\* endpoint, its tool is one of the five labels, so the branch for an
\* unrecognized tool cannot be taken; and chat_with_bot never returned that
\* branch's text.
C17_DispatchedToolInEnum ==
    /\ cpc \in {"dispatch", "call_wait"} => tool_use.tool \in Tools
    /\ ~ENABLED ChatUnrecognized
    /\ result.kind # "unrecognized"

\* C17, the classifier alone: for every question it returns one of the five
\* labels (under SpecClassify).
C17_ClassifierLabelInEnum == cpc = "classified" => tool_use.tool \in Tools

\* C17 witness: the model chose a label outside the enum, and chat_with_bot
\* stands at its dispatch with the classifier's label for a query that has a
\* date keyword.
C17_Witness ==
    /\ cpc = "dispatch"
    /\ response.kind = "tool_use" /\ response.tool = "summarize"
    /\ tool_use = [tool |-> "extract_key_dates", reason |-> "Fallback classifier used"]
    /\ classify_intent(user_query) = "extract_key_dates"

====
